---- MODULE Spec2Model ----
(***************************************************************************)
(* A model of webtty.WebTTY (src/webtty/webtty.go): the bridge between a   *)
(* front connection (masterConn) and a back connection (slave).            *)
(*                                                                         *)
(* Three processes: "run" is the goroutine that calls Run (handshake, then *)
(* the select), "slave" is the back-to-front goroutine (lines 82-102) and  *)
(* "master" is the front-to-back goroutine (lines 104-119).                *)
(*                                                                         *)
(* Bytes are integers 0..255.  An error value is the chain of its messages *)
(* (errors.Wrapf puts the new message in front); the nil error is << >>.   *)
(* A message on the front connection is a record [tag, payload]: the tag   *)
(* stands for the first byte, the payload for the bytes after it.          *)
(***************************************************************************)
EXTENDS Integers, Sequences, FiniteSets, TLC

VARIABLES
    wt,              \* the configuration fields of WebTTY set by New and its options
    env,             \* the traffic of this run: see EnvChunks and EnvMsgs
    decoder,         \* wt.decoder: "null" or "base64"
    feBuffer,        \* wt.feBuffer
    beBuffer,        \* wt.beBuffer
    writeMutex,      \* wt.writeMutex: its holder, or NoHolder
    inWrite,         \* the processes currently inside masterConn.Write
    pc,              \* where each process is
    wmsg,            \* the argument of each process's pending masterWrite
    hsNext,          \* the next handshake message sendInitializeMessage writes
    data,            \* buffer[:n] of the last front read
    result,          \* the value Run returned / each loop's terminal error
    errs,            \* the channel errs
    ctxDone,         \* ctx.Done() is closed
    masterWrites,    \* every Write that returned on the front connection
    masterReadCalls, \* the number of Reads that returned on the front connection
    slaveReads,      \* the chunks successful Reads of the back connection returned
    slaveReadCalls,  \* the number of Reads that returned on the back connection
    slaveWrites,     \* every Write that returned on the back connection
    resizeCalls,     \* every call of slave.ResizeTerminal
    auditLog         \* the lines printAuditLogs emitted

vars == << wt, env, decoder, feBuffer, beBuffer, writeMutex, inWrite, pc, wmsg,
           hsNext, data, result, errs, ctxDone, masterWrites, masterReadCalls,
           slaveReads, slaveReadCalls, slaveWrites, resizeCalls, auditLog >>

Procs == {"run", "slave", "master"}

----------------------------------------------------------------------------
(* Bounds of the model. *)

\* reads of the two connections that return in one run
MaxReads == 3
\* length of a chunk the back connection delivers (when the buffer allows it)
MaxChunkLen == 4
\* largest configured buffer size of the buffer-size scenarios
MaxBufferSize == 9

----------------------------------------------------------------------------
(* Values. *)

NoHolder == "none"
Nil == << >>
NoPrefs == [set |-> FALSE, bytes |-> << >>]
CR == 13
LF == 10
ESC == 27
PadChar == 61

\* Go's integer division truncates toward zero
GoDiv(a, b) == IF a >= 0 THEN a \div b ELSE -((-a) \div b)

RECURSIVE Concat(_)
Concat(ss) == IF ss = << >> THEN << >> ELSE Head(ss) \o Concat(Tail(ss))

----------------------------------------------------------------------------
(* json.Marshal of an int: its decimal digits. *)

RECURSIVE Digits(_)
Digits(n) == IF n < 10 THEN << 48 + n >> ELSE Append(Digits(n \div 10), 48 + (n % 10))

MarshalInt(n) == IF n < 0 THEN << 45 >> \o Digits(-n) ELSE Digits(n)

----------------------------------------------------------------------------
(* base64.StdEncoding *)

B64Char(i) ==
    IF i < 26 THEN 65 + i
    ELSE IF i < 52 THEN 97 + (i - 26)
    ELSE IF i < 62 THEN 48 + (i - 52)
    ELSE IF i = 62 THEN 43 ELSE 47

B64Valid(c) ==
    \/ c \in 65..90
    \/ c \in 97..122
    \/ c \in 48..57
    \/ c \in {43, 47}

B64Val(c) ==
    IF c \in 65..90 THEN c - 65
    ELSE IF c \in 97..122 THEN c - 97 + 26
    ELSE IF c \in 48..57 THEN c - 48 + 52
    ELSE IF c = 43 THEN 62 ELSE 63

RECURSIVE EncodeToString(_)
EncodeToString(src) ==
    IF Len(src) = 0 THEN << >>
    ELSE IF Len(src) >= 3 THEN
        LET val == src[1] * 65536 + src[2] * 256 + src[3]
        IN  << B64Char(val \div 262144), B64Char((val \div 4096) % 64),
               B64Char((val \div 64) % 64), B64Char(val % 64) >>
            \o EncodeToString(SubSeq(src, 4, Len(src)))
    ELSE IF Len(src) = 2 THEN
        LET val == src[1] * 65536 + src[2] * 256
        IN  << B64Char(val \div 262144), B64Char((val \div 4096) % 64),
               B64Char((val \div 64) % 64), PadChar >>
    ELSE
        LET val == src[1] * 65536
        IN  << B64Char(val \div 262144), B64Char((val \div 4096) % 64),
               PadChar, PadChar >>

\* Decode of the text with '\r' and '\n' already skipped: [ok, bytes]
RECURSIVE DecodeQuanta(_)
DecodeQuanta(s) ==
    IF Len(s) = 0 THEN [ok |-> TRUE, bytes |-> << >>]
    ELSE IF Len(s) < 4 THEN [ok |-> FALSE, bytes |-> << >>]
    ELSE IF ~(B64Valid(s[1]) /\ B64Valid(s[2])) THEN [ok |-> FALSE, bytes |-> << >>]
    ELSE
        LET v1 == B64Val(s[1])
            v2 == B64Val(s[2])
            rest == SubSeq(s, 5, Len(s))
        IN  IF B64Valid(s[3]) /\ B64Valid(s[4]) THEN
                LET val == v1 * 262144 + v2 * 4096 + B64Val(s[3]) * 64 + B64Val(s[4])
                    more == DecodeQuanta(rest)
                IN  [ok |-> more.ok,
                     bytes |-> << val \div 65536, (val \div 256) % 256, val % 256 >>
                               \o more.bytes]
            ELSE IF s[3] = PadChar /\ s[4] = PadChar /\ rest = << >> THEN
                [ok |-> TRUE, bytes |-> << (v1 * 4 + v2 \div 16) % 256 >>]
            ELSE IF B64Valid(s[3]) /\ s[4] = PadChar /\ rest = << >> THEN
                LET val == v1 * 262144 + v2 * 4096 + B64Val(s[3]) * 64
                IN  [ok |-> TRUE, bytes |-> << val \div 65536, (val \div 256) % 256 >>]
            ELSE [ok |-> FALSE, bytes |-> << >>]

IsNewline(c) == c = CR \/ c = LF

Base64Decode(src) == DecodeQuanta(SelectSeq(src, LAMBDA c : ~IsNewline(c)))

\* NullCodec.Decode: copy(dst, src), never an error
NullDecode(src) == [ok |-> TRUE, bytes |-> src]

\* a handler that never looks at the active codec
DecodeAlwaysNull(dec, src) == NullDecode(src)

\* wt.decoder.Decode(decodedBuffer, data[1:])
Decode(dec, src) == IF dec = "base64" THEN Base64Decode(src) ELSE NullDecode(src)

----------------------------------------------------------------------------
(* json.Unmarshal(data[1:], &args) into argResizeTerminal{Columns, Rows float64}. *)
(* A float64 is modelled by the number of its halves: 5 is 2.5, -3 is -1.5.       *)
(* A payload is empty, not JSON at all ("invalid"), the JSON null, a JSON value   *)
(* that is no object ("scalar"), or an object; a field of an object is absent,    *)
(* null, a number or a string.                                                    *)

AbsentField == [k |-> "absent", v |-> 0]
NullField == [k |-> "null", v |-> 0]
StrField == [k |-> "str", v |-> 0]
NumField(h) == [k |-> "num", v |-> h]

JsonValue(kind) == [kind |-> kind, Columns |-> AbsentField, Rows |-> AbsentField]
JsonObject(c, r) == [kind |-> "object", Columns |-> c, Rows |-> r]
NoJson == JsonValue("empty")

\* a field leaves the zero value unless it is a number; a string is a type error
FieldValue(f) == IF f.k = "num" THEN f.v ELSE 0

Unmarshal(j) ==
    IF j.kind = "null" THEN [ok |-> TRUE, Columns |-> 0, Rows |-> 0]
    ELSE IF j.kind = "object" THEN
        [ok |-> j.Columns.k # "str" /\ j.Rows.k # "str",
         Columns |-> FieldValue(j.Columns), Rows |-> FieldValue(j.Rows)]
    ELSE [ok |-> FALSE, Columns |-> 0, Rows |-> 0]

\* int(f) of a float64 given in halves: the fraction is discarded
FloatToInt(h) == GoDiv(h, 2)

\* the least number of bytes a JSON text of this shape takes
FieldLen(name, f) ==
    IF f.k = "absent" THEN 0
    ELSE Len(name) + 3 + (IF f.k = "null" THEN 4 ELSE IF f.k = "str" THEN 2 ELSE 1)

JsonLen(j) ==
    IF j.kind = "empty" THEN 0
    ELSE IF j.kind = "null" THEN 4
    ELSE IF j.kind = "object" THEN
        2 + FieldLen("columns", j.Columns) + FieldLen("rows", j.Rows)
          + (IF j.Columns.k # "absent" /\ j.Rows.k # "absent" THEN 1 ELSE 0)
    ELSE 1

----------------------------------------------------------------------------
(* Messages. *)

\* a message written to the front connection
FrontMsg(tag, payload) == [tag |-> tag, payload |-> payload]
NoMsg == FrontMsg("none", << >>)
MsgLen(m) == 1 + Len(m.payload)

\* buffer[:n] of a read of the front connection: a zero-length read has tag "none";
\* Input carries bytes, SetEncoding a name, ResizeTerminal a JSON text
Data(tag, payload, name, json) ==
    [tag |-> tag, payload |-> payload, name |-> name, json |-> json]
ZeroRead == Data("none", << >>, "", NoJson)
InputMsg(payload) == Data("Input", payload, "", NoJson)
PingMsg == Data("Ping", << >>, "", NoJson)
SetEncodingMsg(name) == Data("SetEncoding", << >>, name, NoJson)
ResizeMsg(json) == Data("ResizeTerminal", << >>, "", json)
UnknownMsg == Data("Unknown", << >>, "", NoJson)

\* len(data)
DataLen(d) ==
    IF d.tag = "none" THEN 0
    ELSE 1 + Len(d.payload) + Len(d.name) + JsonLen(d.json)

----------------------------------------------------------------------------
(* The audit sink. *)

\* ansi.Strip: the text between the escape sequences.  A sequence ESC '[',
\* parameter and intermediate bytes (0x20-0x3f), final byte (0x40-0x7e) is
\* removed as a whole; any other escape byte is dropped alone.
CsiLength(s) ==
    IF Len(s) >= 3 /\ s[1] = ESC /\ s[2] = 91
       /\ \E n \in 3..Len(s) : s[n] \in 64..126 /\ \A i \in 3..(n - 1) : s[i] \in 32..63
    THEN CHOOSE n \in 3..Len(s) : s[n] \in 64..126 /\ \A i \in 3..(n - 1) : s[i] \in 32..63
    ELSE 0

RECURSIVE Strip(_)
Strip(buffer) ==
    IF buffer = << >> THEN << >>
    ELSE IF Head(buffer) # ESC THEN << Head(buffer) >> \o Strip(Tail(buffer))
    ELSE IF CsiLength(buffer) > 0
         THEN Strip(SubSeq(buffer, CsiLength(buffer) + 1, Len(buffer)))
         ELSE Strip(Tail(buffer))

\* bytes.LastIndexByte, 0-based, -1 when absent
LastIndexByte(s, c) ==
    IF \E i \in 1..Len(s) : s[i] = c
    THEN (CHOOSE i \in 1..Len(s) : s[i] = c /\ \A j \in (i + 1)..Len(s) : s[j] # c) - 1
    ELSE -1

\* utils.RemoveNonGraphicChar keeps the printable characters
IsGraphic(b) == b \in 32..126
RemoveNonGraphicChar(s) == SelectSeq(s, IsGraphic)

\* the entry printAuditLogs emits for logs
PrintAuditLogs(logs, fe) ==
    [stream |-> IF fe THEN "browser" ELSE "backend",
     username |-> wt.username,
     msg |-> RemoveNonGraphicChar(logs)]

\* an accumulator cut at the last carriage return instead of after it
AuditLogsKeepsCarriageReturn(acc, buffer, fromFe) ==
    IF ~wt.auditEnabled THEN [acc |-> acc, lines |-> << >>]
    ELSE LET all == acc \o Strip(buffer)
             pos == LastIndexByte(all, CR)
         IN  IF pos > -1
             THEN [acc |-> SubSeq(all, pos + 1, Len(all)),
                   lines |-> << PrintAuditLogs(SubSeq(all, 1, pos), fromFe) >>]
             ELSE [acc |-> all, lines |-> << >>]

\* auditLogs on one direction's accumulator acc: the new accumulator and the
\* lines emitted
AuditLogs(acc, buffer, fromFe) ==
    IF ~wt.auditEnabled THEN [acc |-> acc, lines |-> << >>]
    ELSE LET all == acc \o Strip(buffer)
             pos == LastIndexByte(all, CR)
         IN  IF pos > -1
             THEN [acc |-> SubSeq(all, pos + 2, Len(all)),
                   lines |-> << PrintAuditLogs(SubSeq(all, 1, pos), fromFe) >>]
             ELSE [acc |-> all, lines |-> << >>]

----------------------------------------------------------------------------
(* Configuration: New (lines 47-66) and its options. *)

DefaultBufferSize == 1024
\* a completion channel with room for one result
ErrsCapOne == 2 - 1

\* line 80: the capacity of errs
ErrsCap == 2

DefaultConfig ==
    [windowTitle |-> << >>, permitWrite |-> FALSE, columns |-> 0, rows |-> 0,
     reconnect |-> 0, masterPrefs |-> NoPrefs, username |-> "",
     auditEnabled |-> FALSE, bufferSize |-> DefaultBufferSize]

Prefs(bytes) == [set |-> TRUE, bytes |-> bytes]

----------------------------------------------------------------------------
(* Run, lines 74-78 and sendInitializeMessage. *)

\* a sendInitializeMessage that announces the buffer size before the title
InitializeMessagesBufferSizeFirst(w) ==
    << FrontMsg("SetBufferSize", MarshalInt(w.bufferSize)),
       FrontMsg("SetWindowTitle", w.windowTitle) >>
    \o (IF w.reconnect > 0
        THEN << FrontMsg("SetReconnect", MarshalInt(w.reconnect)) >>
        ELSE << >>)
    \o (IF w.masterPrefs.set
        THEN << FrontMsg("SetPreferences", w.masterPrefs.bytes) >>
        ELSE << >>)

\* a sendInitializeMessage that tests the reconnect interval with != 0
InitializeMessagesNonZero(w) ==
    << FrontMsg("SetWindowTitle", w.windowTitle),
       FrontMsg("SetBufferSize", MarshalInt(w.bufferSize)) >>
    \o (IF w.reconnect # 0
        THEN << FrontMsg("SetReconnect", MarshalInt(w.reconnect)) >>
        ELSE << >>)
    \o (IF w.masterPrefs.set
        THEN << FrontMsg("SetPreferences", w.masterPrefs.bytes) >>
        ELSE << >>)

\* the messages sendInitializeMessage writes, in the order it writes them
InitializeMessages(w) ==
    << FrontMsg("SetWindowTitle", w.windowTitle),
       FrontMsg("SetBufferSize", MarshalInt(w.bufferSize)) >>
    \o (IF w.reconnect > 0
        THEN << FrontMsg("SetReconnect", MarshalInt(w.reconnect)) >>
        ELSE << >>)
    \o (IF w.masterPrefs.set
        THEN << FrontMsg("SetPreferences", w.masterPrefs.bytes) >>
        ELSE << >>)

\* the annotation sendInitializeMessage puts on a failed write
StepError(tag) ==
    IF tag = "SetWindowTitle" THEN "failed to send window title"
    ELSE IF tag = "SetBufferSize" THEN "failed to send buffer size"
    ELSE IF tag = "SetReconnect" THEN "failed to set reconnect"
    ELSE "failed to set preferences"

WriteError == << "failed to write to master", "io" >>

\* what Run returns when the handshake write of m failed
HandshakeError(m) ==
    << "failed to send initializing message", StepError(m.tag) >> \o WriteError

\* a handshake that does not look at the error of its writes
AfterHandshakeWriteGoesOn(ok) == "handshake"

\* where Run goes after a handshake write: on, or out with the error
AfterHandshakeWrite(ok) == IF ok THEN "handshake" ELSE "returned"

----------------------------------------------------------------------------
(* masterWrite, lines 170-180. *)

\* a masterWrite without the mutex
TryLockAlways(holder) == TRUE

\* writeMutex.Lock() goes through only while nobody holds the mutex
TryLock(holder) == holder = NoHolder

\* the error masterWrite returns
MasterWriteResult(ok) == IF ok THEN Nil ELSE WriteError

----------------------------------------------------------------------------
(* The back-to-front loop, lines 82-102, and handleSlaveReadEvent. *)

\* a chunk size that leaves no room for the tag byte
MaxChunkSizeNoTag(bufferSize) == GoDiv(bufferSize, 4) * 3

\* maxChunkSize, lines 87-89
MaxChunkSize(bufferSize) == GoDiv(bufferSize - 1, 4) * 3

\* a handleSlaveReadEvent that forwards the chunk as it is
SlaveMessageRaw(chunk) == FrontMsg("Output", chunk)

\* the sentinel of the other loop returned at line 93
ErrSlaveClosedAsMaster == << "ErrMasterClosed" >>

\* the sentinel of the other loop returned at line 110
ErrMasterClosedAsSlave == << "ErrSlaveClosed" >>

\* the message handleSlaveReadEvent writes for a chunk
SlaveMessage(chunk) == FrontMsg("Output", EncodeToString(chunk))

ErrSlaveClosed == << "ErrSlaveClosed" >>
ErrMasterClosed == << "ErrMasterClosed" >>
ErrCanceled == << "context canceled" >>

\* the loop's terminal result when its write of an Output message failed
SlaveWriteError == << "failed to send message to master" >> \o WriteError

----------------------------------------------------------------------------
(* handleMasterReadEvent, lines 182-253. *)

\* a handler that does not test the write permission
InputPermittedAlways(w) == TRUE

\* line 189: data messages are handled only with write permission
InputPermitted(w) == w.permitWrite

\* a skip as soon as one dimension is fixed, and no skip at all
ResizeIgnoredEitherFixed(w) == w.columns # 0 \/ w.rows # 0
ResizeIgnoredNever(w) == FALSE

\* line 224: with both dimensions fixed a resize message is skipped
ResizeIgnored(w) == w.columns # 0 /\ w.rows # 0

\* a resize that takes the columns from the payload whatever is fixed
ResolveColumnsFromPayload(w, args) == FloatToInt(args.Columns)

\* lines 237-245
ResolveRows(w, args) == IF w.rows = 0 THEN FloatToInt(args.Rows) ELSE w.rows
ResolveColumns(w, args) == IF w.columns = 0 THEN FloatToInt(args.Columns) ELSE w.columns

\* a set-encoding that falls back to the identity codec on an unknown name
SelectDecoderDefaultNull(current, name) ==
    IF name = "base64" THEN "base64" ELSE "null"

\* lines 216-221: the codec after a set-encoding message naming name
SelectDecoder(current, name) ==
    IF name = "base64" THEN "base64"
    ELSE IF name = "null" THEN "null"
    ELSE current

\* a keepalive reply with the tag of the request
PongReplyEchoesPing == FrontMsg("Ping", << >>)

\* line 210: the reply to a keepalive-ping
PongReply == FrontMsg("Pong", << >>)

\* a switch without its default case
UnknownMessageTypeIgnored(d) == Nil

\* lines 248-249: the error for a tag that is none of the four
UnknownMessageType(d) == << "unknown message type" >>

\* What handling d does, given whether the back connection's operation (Write,
\* ResizeTerminal) succeeds: the error returned, whether a Pong is to be written,
\* the new decoder and front accumulator, the audit lines, the writes and the
\* resize calls on the back connection.
HandleMasterReadEvent(d, slaveOk) ==
    LET quiet == [err |-> Nil, pong |-> FALSE, decoder |-> decoder,
                  feBuffer |-> feBuffer, lines |-> << >>, writes |-> << >>,
                  resizes |-> << >>]
    IN
    IF DataLen(d) = 0 THEN
        [quiet EXCEPT !.err = << "unexpected zero length read from master" >>]
    ELSE IF d.tag = "Input" THEN
        IF ~InputPermitted(wt) THEN quiet
        ELSE IF DataLen(d) <= 1 THEN quiet
        ELSE LET dec == Decode(decoder, d.payload)
                 audit == AuditLogs(feBuffer, dec.bytes, TRUE)
             IN  IF ~dec.ok THEN
                     [quiet EXCEPT !.err = << "failed to decode received data", "corrupt input" >>]
                 ELSE
                     [quiet EXCEPT
                        !.feBuffer = audit.acc,
                        !.lines = audit.lines,
                        !.writes = << [bytes |-> dec.bytes, ok |-> slaveOk] >>,
                        !.err = IF slaveOk THEN Nil
                                ELSE << "failed to write received data to slave", "io" >>]
    ELSE IF d.tag = "Ping" THEN
        [quiet EXCEPT !.pong = TRUE]
    ELSE IF d.tag = "SetEncoding" THEN
        [quiet EXCEPT !.decoder = SelectDecoder(decoder, d.name)]
    ELSE IF d.tag = "ResizeTerminal" THEN
        IF ResizeIgnored(wt) THEN quiet
        ELSE IF DataLen(d) <= 1 THEN
            [quiet EXCEPT !.err =
                << "received malformed remote command for terminal resize: empty payload" >>]
        ELSE LET args == Unmarshal(d.json)
             IN  IF ~args.ok THEN
                     [quiet EXCEPT !.err =
                         << "received malformed data for terminal resize", "json" >>]
                 ELSE
                     [quiet EXCEPT !.resizes =
                         << [columns |-> ResolveColumns(wt, args),
                             rows |-> ResolveRows(wt, args), ok |-> slaveOk] >>]
    ELSE
        [quiet EXCEPT !.err = UnknownMessageType(d)]

PongError == << "failed to return Pong message to master" >> \o WriteError

----------------------------------------------------------------------------
(* What the connections deliver. *)

\* the byte pattern 'l', '\r', 0xff, 'l', ... of length n
Pattern(n) == [i \in 1..n |-> IF i % 3 = 1 THEN 108 ELSE IF i % 3 = 2 THEN CR ELSE 255]

\* the chunks the back connection delivers: the pattern's prefixes
Chunks == {SubSeq(Pattern(MaxChunkLen), 1, n) : n \in 0..MaxChunkLen}

FewChunks == {<< >>, << 108 >>}

\* chunks of every length a small buffer may or may not hold
LongChunks == {[i \in 1..n |-> 108] : n \in 0..MaxBufferSize}

\* payloads of data messages: raw bytes, their base64 text, and a lone '='
RawPayloads == {<< >>, << 108 >>, << 108, CR >>}
InputPayloads ==
    RawPayloads \cup {EncodeToString(r) : r \in RawPayloads} \cup {<< PadChar >>}

InputMessages == {InputMsg(b) : b \in InputPayloads}

EncodingMessages == {SetEncodingMsg(n) : n \in {"base64", "null", "", "utf8"}}

\* a field that is absent, null, a string, or the number h (in halves)
JsonFields(h) == {AbsentField, NullField, StrField, NumField(h)}

\* resize payloads; the numbers are 2.5 columns and -1.5 rows
JsonPayloads ==
    {JsonValue(k) : k \in {"empty", "invalid", "null", "scalar"}}
    \cup {JsonObject(c, r) : c \in JsonFields(5), r \in JsonFields(-3)}

ResizeMessages == {ResizeMsg(j) : j \in JsonPayloads}

\* terminal output: 'l', a lone '\r', and "\r" ESC "[m" "l"
AuditChunks == {<< 108 >>, << CR >>, << CR, ESC, 91, 109, 108 >>}

\* keyboard input: "ls\r", "\r" and "s"
AuditMessages == {InputMsg(<< 108, 115, CR >>), InputMsg(<< CR >>), InputMsg(<< 115 >>)}

\* the chunks the back connection can deliver in a run with traffic e
EnvChunks(e) ==
    IF e = "forward" THEN Chunks
    ELSE IF e = "audit" THEN AuditChunks
    ELSE IF e = "buffer" THEN LongChunks
    ELSE IF e = "handshake" THEN FewChunks
    ELSE {<< 108 >>}

\* the messages the front connection can deliver in a run with traffic e
EnvMsgs(e) ==
    IF e = "forward" THEN {PingMsg, UnknownMsg}
    ELSE IF e = "input" THEN InputMessages \cup EncodingMessages \cup {PingMsg}
    ELSE IF e = "resize" THEN ResizeMessages
    ELSE IF e = "audit" THEN AuditMessages
    ELSE IF e = "protocol" THEN {PingMsg, ZeroRead, UnknownMsg}
    ELSE {PingMsg, ZeroRead}

----------------------------------------------------------------------------
(* The state after New. *)

InitWith(configs, decoders, envs) ==
    /\ wt \in configs
    /\ decoder \in decoders
    /\ env \in envs
    /\ feBuffer = << >>
    /\ beBuffer = << >>
    /\ writeMutex = NoHolder
    /\ inWrite = {}
    /\ pc = [p \in Procs |-> IF p = "run" THEN "handshake" ELSE "idle"]
    /\ wmsg = [p \in Procs |-> NoMsg]
    /\ hsNext = 1
    /\ data = ZeroRead
    /\ result = [p \in Procs |-> Nil]
    /\ errs = << >>
    /\ ctxDone = FALSE
    /\ masterWrites = << >>
    /\ masterReadCalls = 0
    /\ slaveReads = << >>
    /\ slaveReadCalls = 0
    /\ slaveWrites = << >>
    /\ resizeCalls = << >>
    /\ auditLog = << >>

----------------------------------------------------------------------------
(* Run and sendInitializeMessage. *)

\* sendInitializeMessage comes to its next masterWrite
SendInitializeMessage ==
    /\ pc["run"] = "handshake"
    /\ hsNext <= Len(InitializeMessages(wt))
    /\ wmsg' = [wmsg EXCEPT !["run"] = InitializeMessages(wt)[hsNext]]
    /\ pc' = [pc EXCEPT !["run"] = "lock"]
    /\ UNCHANGED << wt, env, decoder, feBuffer, beBuffer, writeMutex, inWrite, hsNext,
                    data, result, errs, ctxDone, masterWrites, masterReadCalls,
                    slaveReads, slaveReadCalls, slaveWrites, resizeCalls, auditLog >>

\* sendInitializeMessage returned nil: Run makes errs and starts both goroutines
StartLoops ==
    /\ pc["run"] = "handshake"
    /\ hsNext > Len(InitializeMessages(wt))
    /\ pc' = [run |-> "select", slave |-> "read", master |-> "read"]
    /\ UNCHANGED << wt, env, decoder, feBuffer, beBuffer, writeMutex, inWrite, wmsg,
                    hsNext, data, result, errs, ctxDone, masterWrites, masterReadCalls,
                    slaveReads, slaveReadCalls, slaveWrites, resizeCalls, auditLog >>

\* the select of lines 121-125 takes ctx.Done()
RunCanceled ==
    /\ pc["run"] = "select"
    /\ ctxDone
    /\ result' = [result EXCEPT !["run"] = ErrCanceled]
    /\ pc' = [pc EXCEPT !["run"] = "returned"]
    /\ UNCHANGED << wt, env, decoder, feBuffer, beBuffer, writeMutex, inWrite, wmsg,
                    hsNext, data, errs, ctxDone, masterWrites, masterReadCalls,
                    slaveReads, slaveReadCalls, slaveWrites, resizeCalls, auditLog >>

\* a Run that stops both loops when it has received a result
RunReceiveStopsLoops ==
    /\ pc["run"] = "select"
    /\ errs # << >>
    /\ result' = [result EXCEPT !["run"] = Head(errs)]
    /\ errs' = Tail(errs)
    /\ pc' = [run |-> "returned", slave |-> "done", master |-> "done"]
    /\ UNCHANGED << wt, env, decoder, feBuffer, beBuffer, writeMutex, inWrite, wmsg,
                    hsNext, data, ctxDone, masterWrites, masterReadCalls,
                    slaveReads, slaveReadCalls, slaveWrites, resizeCalls, auditLog >>

\* the select of lines 121-125 receives from errs
RunReceive ==
    /\ pc["run"] = "select"
    /\ errs # << >>
    /\ result' = [result EXCEPT !["run"] = Head(errs)]
    /\ errs' = Tail(errs)
    /\ pc' = [pc EXCEPT !["run"] = "returned"]
    /\ UNCHANGED << wt, env, decoder, feBuffer, beBuffer, writeMutex, inWrite, wmsg,
                    hsNext, data, ctxDone, masterWrites, masterReadCalls,
                    slaveReads, slaveReadCalls, slaveWrites, resizeCalls, auditLog >>

\* the caller cancels the context
Cancel ==
    /\ ~ctxDone
    /\ ctxDone' = TRUE
    /\ UNCHANGED << wt, env, decoder, feBuffer, beBuffer, writeMutex, inWrite, pc, wmsg,
                    hsNext, data, result, errs, masterWrites, masterReadCalls,
                    slaveReads, slaveReadCalls, slaveWrites, resizeCalls, auditLog >>

----------------------------------------------------------------------------
(* masterWrite. *)

\* writeMutex.Lock() returns and masterConn.Write is entered
MasterWriteLock(p) ==
    /\ pc[p] = "lock"
    /\ TryLock(writeMutex)
    /\ writeMutex' = p
    /\ inWrite' = inWrite \cup {p}
    /\ pc' = [pc EXCEPT ![p] = "write"]
    /\ UNCHANGED << wt, env, decoder, feBuffer, beBuffer, wmsg, hsNext, data, result,
                    errs, ctxDone, masterWrites, masterReadCalls, slaveReads,
                    slaveReadCalls, slaveWrites, resizeCalls, auditLog >>

\* masterConn.Write returns, the mutex is released, and the caller goes on:
\* sendInitializeMessage and Run (lines 75-78, 131-155), the back-to-front loop
\* (lines 96-99, 162-165), the front-to-back loop (lines 113-116, 210-213)
MasterWriteReturn(p) ==
    /\ pc[p] = "write"
    /\ \E ok \in BOOLEAN :
        LET err == MasterWriteResult(ok)
            next == IF p = "run" THEN AfterHandshakeWrite(ok)
                    ELSE IF err = Nil THEN "read" ELSE "send"
        IN  /\ masterWrites' = Append(masterWrites, [msg |-> wmsg[p], ok |-> ok, by |-> p])
            /\ pc' = [pc EXCEPT ![p] = next]
            /\ hsNext' = IF p = "run" /\ next = "handshake" THEN hsNext + 1 ELSE hsNext
            /\ result' =
                 IF err = Nil THEN result
                 ELSE [result EXCEPT ![p] =
                         IF p = "run" THEN HandshakeError(wmsg[p])
                         ELSE IF p = "slave" THEN SlaveWriteError
                         ELSE PongError]
    /\ writeMutex' = NoHolder
    /\ inWrite' = inWrite \ {p}
    /\ wmsg' = [wmsg EXCEPT ![p] = NoMsg]
    /\ UNCHANGED << wt, env, decoder, feBuffer, beBuffer, data, errs, ctxDone,
                    masterReadCalls, slaveReads, slaveReadCalls, slaveWrites,
                    resizeCalls, auditLog >>

----------------------------------------------------------------------------
(* The two loops. *)

\* slave.Read fails: the loop ends with ErrSlaveClosed
SlaveReadFails ==
    /\ pc["slave"] = "read"
    /\ slaveReadCalls' = slaveReadCalls + 1
    /\ result' = [result EXCEPT !["slave"] = ErrSlaveClosed]
    /\ pc' = [pc EXCEPT !["slave"] = "send"]
    /\ UNCHANGED << wt, env, decoder, feBuffer, beBuffer, writeMutex, inWrite, wmsg,
                    hsNext, data, errs, ctxDone, masterWrites, masterReadCalls,
                    slaveReads, slaveWrites, resizeCalls, auditLog >>

\* slave.Read returns a chunk of at most maxChunkSize bytes; it is audited and
\* handleSlaveReadEvent comes to its masterWrite
SlaveRead ==
    /\ pc["slave"] = "read"
    /\ slaveReadCalls + masterReadCalls < MaxReads
    /\ \E chunk \in EnvChunks(env) :
        /\ Len(chunk) <= MaxChunkSize(wt.bufferSize)
        /\ \E audit \in {AuditLogs(beBuffer, chunk, FALSE)} :
               /\ beBuffer' = audit.acc
               /\ auditLog' = auditLog \o audit.lines
        /\ slaveReads' = Append(slaveReads, chunk)
        /\ wmsg' = [wmsg EXCEPT !["slave"] = SlaveMessage(chunk)]
    /\ slaveReadCalls' = slaveReadCalls + 1
    /\ pc' = [pc EXCEPT !["slave"] = "lock"]
    /\ UNCHANGED << wt, env, decoder, feBuffer, writeMutex, inWrite, hsNext, data,
                    result, errs, ctxDone, masterWrites, masterReadCalls, slaveWrites,
                    resizeCalls >>

\* masterConn.Read fails: the loop ends with ErrMasterClosed
MasterReadFails ==
    /\ pc["master"] = "read"
    /\ masterReadCalls' = masterReadCalls + 1
    /\ result' = [result EXCEPT !["master"] = ErrMasterClosed]
    /\ pc' = [pc EXCEPT !["master"] = "send"]
    /\ UNCHANGED << wt, env, decoder, feBuffer, beBuffer, writeMutex, inWrite, wmsg,
                    hsNext, data, errs, ctxDone, masterWrites, slaveReads,
                    slaveReadCalls, slaveWrites, resizeCalls, auditLog >>

\* masterConn.Read returns a message that fits the buffer and
\* handleMasterReadEvent handles it, up to the masterWrite of a Pong
MasterRead ==
    /\ pc["master"] = "read"
    /\ slaveReadCalls + masterReadCalls < MaxReads
    /\ \E d \in EnvMsgs(env), slaveOk \in BOOLEAN :
        /\ DataLen(d) <= wt.bufferSize
        /\ \E out \in {HandleMasterReadEvent(d, slaveOk)} :
               /\ data' = d
               /\ decoder' = out.decoder
               /\ feBuffer' = out.feBuffer
               /\ auditLog' = auditLog \o out.lines
               /\ slaveWrites' = slaveWrites \o out.writes
               /\ resizeCalls' = resizeCalls \o out.resizes
               /\ result' = IF out.err = Nil THEN result
                            ELSE [result EXCEPT !["master"] = out.err]
               /\ wmsg' = IF out.pong THEN [wmsg EXCEPT !["master"] = PongReply]
                          ELSE wmsg
               /\ pc' = [pc EXCEPT !["master"] =
                           IF out.err # Nil THEN "send"
                           ELSE IF out.pong THEN "lock" ELSE "read"]
    /\ masterReadCalls' = masterReadCalls + 1
    /\ UNCHANGED << wt, env, beBuffer, writeMutex, inWrite, hsNext, errs, ctxDone,
                    masterWrites, slaveReads, slaveReadCalls >>

\* errs <- the loop's terminal result (lines 83, 105)
SendResult(p) ==
    /\ p \in {"slave", "master"}
    /\ pc[p] = "send"
    /\ Len(errs) < ErrsCap
    /\ errs' = Append(errs, result[p])
    /\ pc' = [pc EXCEPT ![p] = "done"]
    /\ UNCHANGED << wt, env, decoder, feBuffer, beBuffer, writeMutex, inWrite, wmsg,
                    hsNext, data, result, ctxDone, masterWrites, masterReadCalls,
                    slaveReads, slaveReadCalls, slaveWrites, resizeCalls, auditLog >>

Next ==
    \/ SendInitializeMessage
    \/ StartLoops
    \/ RunCanceled
    \/ RunReceive
    \/ Cancel
    \/ \E p \in Procs : MasterWriteLock(p)
    \/ \E p \in Procs : MasterWriteReturn(p)
    \/ SlaveReadFails
    \/ SlaveRead
    \/ MasterReadFails
    \/ MasterRead
    \/ \E p \in Procs : SendResult(p)

----------------------------------------------------------------------------
(* Specifications: the same program under different configurations and traffic. *)

\* the default configuration with auditing on; data from the back connection,
\* keepalives and unknown messages from the front connection
Init ==
    InitWith({[DefaultConfig EXCEPT !.auditEnabled = TRUE]},
             {"null"},
             {"forward"})

Spec == Init /\ [][Next]_vars

\* every combination of reconnect interval and preference data
InitHandshake ==
    InitWith({[DefaultConfig EXCEPT !.windowTitle = << 116 >>, !.reconnect = r,
                                    !.masterPrefs = m] :
                 r \in {-1, 0, 10},
                 m \in {NoPrefs, Prefs(<< >>), Prefs(<< 123, 125 >>)}},
             {"null"},
             {"handshake"})

SpecHandshake == InitHandshake /\ [][Next]_vars

\* every small buffer size
InitBuffer ==
    InitWith({[DefaultConfig EXCEPT !.bufferSize = b] : b \in 0..MaxBufferSize},
             {"null"},
             {"buffer"})

SpecBuffer == InitBuffer /\ [][Next]_vars

\* data and encoding messages from the front connection, with and without
\* write permission and auditing, starting with either codec
InitInput ==
    InitWith({[DefaultConfig EXCEPT !.permitWrite = w, !.auditEnabled = a] :
                 w \in BOOLEAN, a \in BOOLEAN},
             {"null", "base64"},
             {"input"})

SpecInput == InitInput /\ [][Next]_vars

\* resize messages from the front connection, with every combination of fixed
\* columns and rows
InitResize ==
    InitWith({[DefaultConfig EXCEPT !.columns = c, !.rows = r] :
                 c \in {0, 80}, r \in {0, 24}},
             {"null"},
             {"resize"})

SpecResize == InitResize /\ [][Next]_vars

\* keyboard input and terminal output with write permission, auditing on or off
InitAudit ==
    InitWith({[DefaultConfig EXCEPT !.permitWrite = TRUE, !.auditEnabled = a] :
                 a \in BOOLEAN},
             {"null"},
             {"audit"})

SpecAudit == InitAudit /\ [][Next]_vars

\* keepalives, zero-length reads and unknown messages from the front connection,
\* one-byte chunks from the back connection
InitProtocol == InitWith({DefaultConfig}, {"null"}, {"protocol"})

SpecProtocol == InitProtocol /\ [][Next]_vars

\* The scheduler runs every goroutine that can take a step; a Write on the front
\* connection returns; a goroutine waiting in writeMutex.Lock() gets the mutex
\* (sync.Mutex hands it to a starving waiter).  Reads may block for ever and
\* nobody has to cancel.
Fairness ==
    /\ \A p \in Procs : SF_vars(MasterWriteLock(p))
    /\ \A p \in Procs : WF_vars(MasterWriteReturn(p))
    /\ \A p \in Procs : WF_vars(SendResult(p))
    /\ WF_vars(SendInitializeMessage)
    /\ WF_vars(StartLoops)
    /\ WF_vars(RunReceive \/ RunCanceled)

SpecLive == InitProtocol /\ [][Next]_vars /\ Fairness

----------------------------------------------------------------------------
(* Vocabulary of the properties. *)

WriteIndexes == 1..Len(masterWrites)
WriteTag(i) == masterWrites[i].msg.tag
HasWrite(tag) == \E i \in WriteIndexes : WriteTag(i) = tag /\ masterWrites[i].ok

\* the place of a handshake message in the handshake; 5 for any other message
HandshakeRank(tag) ==
    IF tag = "SetWindowTitle" THEN 1
    ELSE IF tag = "SetBufferSize" THEN 2
    ELSE IF tag = "SetReconnect" THEN 3
    ELSE IF tag = "SetPreferences" THEN 4
    ELSE 5

\* sendInitializeMessage returned nil: Run went on to start the goroutines
HandshakeSucceeded == pc["slave"] # "idle"

\* a handshake write failed
HandshakeWriteFailed == \E i \in WriteIndexes : masterWrites[i].by = "run" /\ ~masterWrites[i].ok

\* this step is a front read that returned a message, data', and its handling
HandledStep ==
    /\ masterReadCalls' = masterReadCalls + 1
    /\ ~(pc'["master"] = "send" /\ result'["master"] = ErrMasterClosed)

\* this step ends the front-to-back loop with an error of the handler
FatalStep == pc'["master"] = "send" /\ result'["master"] # Nil

\* this step lets the front-to-back loop go on to its next read without an error
ContinueStep == pc'["master"] = "read" /\ result' = result

BothFixed == wt.columns # 0 /\ wt.rows # 0

\* the payload of a resize message is empty or json.Unmarshal rejects it
Malformed(d) == d.json.kind = "empty" \/ ~Unmarshal(d.json).ok

\* c is the float64 h (in halves) with its fraction discarded
IntegerPartOf(c, h) ==
    \/ h >= 0 /\ 2 * c <= h /\ h < 2 * c + 2
    \/ h < 0 /\ 2 * c >= h /\ h > 2 * c - 2

\* the number a text of decimal digits denotes
IsDecimal(s) == Len(s) >= 1 /\ \A i \in 1..Len(s) : s[i] \in 48..57
RECURSIVE DecimalValue(_)
DecimalValue(s) ==
    IF s = << >> THEN 0
    ELSE 10 * DecimalValue(SubSeq(s, 1, Len(s) - 1)) + (s[Len(s)] - 48)

\* the bytes the Output messages written so far decode to, in order
RECURSIVE DecodedOutput(_)
DecodedOutput(ws) ==
    IF ws = << >> THEN << >>
    ELSE IF Head(ws).msg.tag = "Output" /\ Head(ws).ok
         THEN Base64Decode(Head(ws).msg.payload).bytes \o DecodedOutput(Tail(ws))
         ELSE DecodedOutput(Tail(ws))

OutputWriteFailed ==
    \E i \in WriteIndexes : WriteTag(i) = "Output" /\ ~masterWrites[i].ok

\* the chunks read whose handleSlaveReadEvent has written its message
ChunksForwarded ==
    IF pc["slave"] \in {"lock", "write"}
    THEN SubSeq(slaveReads, 1, Len(slaveReads) - 1)
    ELSE slaveReads

----------------------------------------------------------------------------
(* C1: at most one process is inside the front connection's Write at any time, *)
(* whichever of the handshake, the back-to-front loop and the front-to-back    *)
(* loop issued the write.                                                      *)
C1_OneWriteInFlight ==
    /\ Cardinality(inWrite) <= 1
    /\ \A p \in inWrite : writeMutex = p

\* a Pong waits for the mutex while an Output message is being written
C1_Witness == inWrite = {"slave"} /\ pc["master"] = "lock" /\ wmsg["master"].tag = "Pong"

(* C2: the handshake messages are the first writes on the front connection, in   *)
(* the order set-window-title, set-buffer-size, set-reconnect, set-preferences,   *)
(* each at most once; no other message is written and no read is issued on        *)
(* either connection before every handshake write of the configuration has        *)
(* completed.                                                                     *)
C2_HandshakeFirst ==
    LET n == Len(masterWrites)
        rank(i) == HandshakeRank(WriteTag(i))
        written == Cardinality({i \in WriteIndexes : rank(i) <= 4})
        expected == 2 + (IF wt.reconnect > 0 THEN 1 ELSE 0)
                      + (IF wt.masterPrefs.set THEN 1 ELSE 0)
    IN  /\ n >= 1 => rank(1) = 1 /\ masterWrites[1].msg.payload = wt.windowTitle
        /\ n >= 2 => rank(2) = 2
        /\ \A i, j \in WriteIndexes : i < j /\ rank(j) <= 4 => rank(i) < rank(j)
        /\ ((\E i \in WriteIndexes : rank(i) = 5) \/ slaveReadCalls + masterReadCalls > 0)
            => /\ written = expected
               /\ \A i \in 1..expected : masterWrites[i].ok

\* all four handshake messages, then an Output and a Pong
C2_Witness ==
    /\ Len(masterWrites) >= 6
    /\ WriteTag(3) = "SetReconnect"
    /\ WriteTag(4) = "SetPreferences"
    /\ HasWrite("Output")
    /\ HasWrite("Pong")

(* C3 as claimed: after a successful handshake a set-reconnect message was   *)
(* written iff the reconnect interval is non-zero, and a set-preferences     *)
(* message iff preference data is configured.                                *)
C3_ReconnectIffNonZero ==
    HandshakeSucceeded =>
        /\ HasWrite("SetReconnect") <=> wt.reconnect # 0
        /\ HasWrite("SetPreferences") <=> wt.masterPrefs.set

(* C3 as amended: after a successful handshake a set-reconnect message was   *)
(* written iff the reconnect interval is greater than zero, carrying the     *)
(* interval in decimal, and a set-preferences message iff preference data    *)
(* is configured, carrying that data.                                        *)
C3_ReconnectIffPositive ==
    HandshakeSucceeded =>
        /\ HasWrite("SetReconnect") <=> wt.reconnect > 0
        /\ HasWrite("SetPreferences") <=> wt.masterPrefs.set
        /\ \A i \in WriteIndexes :
            /\ WriteTag(i) = "SetReconnect" =>
                 /\ IsDecimal(masterWrites[i].msg.payload)
                 /\ DecimalValue(masterWrites[i].msg.payload) = wt.reconnect
            /\ WriteTag(i) = "SetPreferences" =>
                 masterWrites[i].msg.payload = wt.masterPrefs.bytes

\* a negative interval and empty preference data: no set-reconnect, one set-preferences
C3_Witness ==
    /\ HandshakeSucceeded
    /\ wt.reconnect < 0
    /\ ~HasWrite("SetReconnect")
    /\ wt.masterPrefs = Prefs(<< >>)
    /\ HasWrite("SetPreferences")

(* C4: once a handshake write has failed, Run has returned an error, the failed *)
(* write is the last write on the front connection, neither loop has been       *)
(* started and nothing has been read from or written to the back connection.    *)
C4_HandshakeFailureAborts ==
    HandshakeWriteFailed =>
        /\ pc["run"] = "returned"
        /\ result["run"] # Nil
        /\ Head(result["run"]) = "failed to send initializing message"
        /\ ~masterWrites[Len(masterWrites)].ok
        /\ \A i \in 1..(Len(masterWrites) - 1) : masterWrites[i].ok
        /\ pc["slave"] = "idle"
        /\ pc["master"] = "idle"
        /\ slaveReadCalls = 0
        /\ masterReadCalls = 0
        /\ slaveWrites = << >>
        /\ resizeCalls = << >>

\* the write of set-reconnect fails, with set-preferences still to come
C4_Witness ==
    /\ Len(masterWrites) = 3
    /\ WriteTag(3) = "SetReconnect"
    /\ ~masterWrites[3].ok
    /\ wt.masterPrefs.set

(* C5: as long as no write of an Output message has failed, the payloads of the *)
(* Output messages written decode, in order, to exactly the bytes of the chunks *)
(* read from the back connection and forwarded so far.                          *)
C5_OutputDecodesToInput ==
    ~OutputWriteFailed =>
        /\ DecodedOutput(masterWrites) = Concat(ChunksForwarded)
        /\ \A i \in WriteIndexes :
            WriteTag(i) = "Output" => Base64Decode(masterWrites[i].msg.payload).ok

\* three chunks forwarded, among them one of four bytes and one of two
C5_Witness ==
    /\ Len(slaveReads) = 3
    /\ pc["slave"] = "read"
    /\ \E i \in 1..3 : Len(slaveReads[i]) = 4
    /\ \E i \in 1..3 : Len(slaveReads[i]) = 2
    /\ ~OutputWriteFailed

(* C6 as claimed: for every configured buffer size, every Output message is at *)
(* most as long as the buffer size.                                            *)
C6_OutputFitsBuffer ==
    /\ \A i \in WriteIndexes :
        WriteTag(i) = "Output" => MsgLen(masterWrites[i].msg) <= wt.bufferSize
    /\ wmsg["slave"].tag = "Output" => MsgLen(wmsg["slave"]) <= wt.bufferSize

(* C6 as amended: for every configured buffer size of at least 1, every Output *)
(* message is at most as long as the buffer size.                              *)
C6_OutputFitsPositiveBuffer == wt.bufferSize >= 1 => C6_OutputFitsBuffer

\* a chunk that fills a buffer of 5 bytes exactly
C6_Witness ==
    /\ wt.bufferSize = 5
    /\ \E i \in WriteIndexes :
        WriteTag(i) = "Output" /\ MsgLen(masterWrites[i].msg) = 5

(* C7: without write permission, handling a data message writes nothing to the *)
(* back connection, leaves the front accumulator as it is, produces no error   *)
(* and lets the loop go on to its next read.                                   *)
C7_ReadOnlyDiscardsInput ==
    [][(HandledStep /\ data'.tag = "Input" /\ ~wt.permitWrite)
        => /\ slaveWrites' = slaveWrites
           /\ feBuffer' = feBuffer
           /\ auditLog' = auditLog
           /\ ContinueStep]_vars

\* read-only, base64 active: a payload that is no base64 was discarded
C7_Witness ==
    /\ ~wt.permitWrite
    /\ wt.auditEnabled
    /\ decoder = "base64"
    /\ data = InputMsg(<< PadChar >>)
    /\ masterReadCalls >= 2
    /\ pc["master"] = "read"

(* C8 as claimed: handling a resize message ends the loop with an error iff its *)
(* payload is empty or does not decode, whatever dimensions are fixed.          *)
C8_ResizeFatalIffMalformed ==
    [][(HandledStep /\ data'.tag = "ResizeTerminal")
        => (FatalStep <=> Malformed(data'))]_vars

(* C8 as amended: handling a resize message ends the loop with an error iff at *)
(* most one dimension is fixed and its payload is empty or does not decode.    *)
C8_ResizeFatalIffMalformedAndNotBothFixed ==
    [][(HandledStep /\ data'.tag = "ResizeTerminal")
        => /\ FatalStep <=> (~BothFixed /\ Malformed(data'))
           /\ ~FatalStep => ContinueStep]_vars

\* columns fixed, rows not: a payload with a string for rows ended the loop
C8_Witness ==
    /\ wt.columns # 0
    /\ wt.rows = 0
    /\ data = ResizeMsg(JsonObject(NumField(5), StrField))
    /\ pc["master"] = "send"
    /\ Head(result["master"]) = "received malformed data for terminal resize"

(* C9: with both dimensions fixed, handling a resize message, well-formed, *)
(* empty or malformed, calls no resize on the back connection and produces *)
(* no error.                                                               *)
C9_BothFixedIgnoresResize ==
    [][(HandledStep /\ data'.tag = "ResizeTerminal" /\ BothFixed)
        => /\ resizeCalls' = resizeCalls
           /\ resizeCalls = << >>
           /\ ContinueStep]_vars

\* both fixed: an invalid payload after two other resize messages, and the loop goes on
C9_Witness ==
    /\ BothFixed
    /\ data = ResizeMsg(JsonValue("invalid"))
    /\ masterReadCalls = 3
    /\ pc["master"] = "read"
    /\ resizeCalls = << >>

(* C10 as claimed: handling a well-formed resize message with at most one      *)
(* dimension fixed calls the back connection's resize exactly once, with the   *)
(* fixed columns if non-zero and otherwise the payload's columns, and the      *)
(* fixed rows if non-zero and otherwise the payload's rows; whatever the call  *)
(* returns, the loop goes on.                                                  *)
C10_ResizeWithPayloadValues ==
    [][(HandledStep /\ data'.tag = "ResizeTerminal" /\ ~BothFixed /\ ~Malformed(data'))
        => /\ Len(resizeCalls') = Len(resizeCalls) + 1
           /\ SubSeq(resizeCalls', 1, Len(resizeCalls)) = resizeCalls
           /\ LET call == resizeCalls'[Len(resizeCalls')]
                  args == Unmarshal(data'.json)
              IN  /\ IF wt.columns # 0 THEN call.columns = wt.columns
                      ELSE 2 * call.columns = args.Columns
                  /\ IF wt.rows # 0 THEN call.rows = wt.rows
                      ELSE 2 * call.rows = args.Rows
           /\ ContinueStep]_vars

(* C10 as amended: the same, the payload's columns and rows being converted to *)
(* integers by discarding their fraction (an absent or null field counts as 0). *)
C10_ResizeWithTruncatedPayloadValues ==
    [][(HandledStep /\ data'.tag = "ResizeTerminal" /\ ~BothFixed /\ ~Malformed(data'))
        => /\ Len(resizeCalls') = Len(resizeCalls) + 1
           /\ SubSeq(resizeCalls', 1, Len(resizeCalls)) = resizeCalls
           /\ LET call == resizeCalls'[Len(resizeCalls')]
                  args == Unmarshal(data'.json)
              IN  /\ IF wt.columns # 0 THEN call.columns = wt.columns
                      ELSE IntegerPartOf(call.columns, args.Columns)
                  /\ IF wt.rows # 0 THEN call.rows = wt.rows
                      ELSE IntegerPartOf(call.rows, args.Rows)
           /\ ContinueStep]_vars

\* columns fixed at 80: a payload of 2.5 columns and -1.5 rows gave a call (80, -1)
\* that failed, and the loop goes on
C10_Witness ==
    /\ wt.columns = 80
    /\ wt.rows = 0
    /\ data = ResizeMsg(JsonObject(NumField(5), NumField(-3)))
    /\ resizeCalls # << >>
    /\ resizeCalls[Len(resizeCalls)] = [columns |-> 80, rows |-> -1, ok |-> FALSE]
    /\ pc["master"] = "read"

----------------------------------------------------------------------------
(* Keepalive. *)

\* this step is the front read of a keepalive-ping and its dispatch
PingDispatch == HandledStep /\ data'.tag = "Ping"

\* the front-to-back loop has a reply to write and has not written it yet
PongPending == pc["master"] \in {"lock", "write"}

\* this step completes a Write of the front-to-back loop on the front connection
MasterWrote ==
    /\ Len(masterWrites') = Len(masterWrites) + 1
    /\ masterWrites'[Len(masterWrites')].by = "master"

(* C11: every keepalive-ping the front-to-back loop dispatches leads to exactly   *)
(* one Pong write on the front connection before the loop's next read; the Pong   *)
(* is never written while a write of the back-to-front loop is in flight; a Pong  *)
(* that waits for the mutex gets it and its write completes, given that writes on *)
(* the front connection return.                                                   *)
C11_PingAnsweredOnce ==
    /\ [][PingDispatch =>
            /\ pc'["master"] = "lock"
            /\ wmsg'["master"].tag = "Pong"
            /\ masterWrites' = masterWrites]_vars
    /\ [][PongPending =>
            /\ masterReadCalls' = masterReadCalls
            /\ pc'["master"] \in {"read", "send"} => MasterWrote]_vars
    /\ [][MasterWrote =>
            /\ pc["master"] = "write"
            /\ pc'["master"] \in {"read", "send"}
            /\ masterWrites'[Len(masterWrites')].msg = [tag |-> "Pong", payload |-> << >>]]_vars
    /\ []("master" \in inWrite => inWrite = {"master"} /\ pc["slave"] # "write")
    /\ (pc["master"] = "lock") ~> (pc["master"] \in {"read", "send"})

\* a Pong was written right after an Output message, and the loop reads again
C11_Witness ==
    /\ pc["master"] = "read"
    /\ \E i \in WriteIndexes :
        /\ i > 1
        /\ WriteTag(i) = "Pong" /\ masterWrites[i].by = "master" /\ masterWrites[i].ok
        /\ WriteTag(i - 1) = "Output" /\ masterWrites[i - 1].by = "slave"

----------------------------------------------------------------------------
(* Input encoding. *)

\* this step is the front read of a set-encoding message and its dispatch
EncodingDispatch == HandledStep /\ data'.tag = "SetEncoding"

Recognized(name) == name \in {"base64", "null"}

\* this step is the front read of a data message with a payload and its dispatch,
\* writes being permitted
InputDispatch ==
    /\ HandledStep
    /\ data'.tag = "Input"
    /\ wt.permitWrite
    /\ data'.payload # << >>

\* this step decodes the payload of data' with codec: the decoding is written to
\* the back connection, or the payload is not in the codec's range and the loop
\* ends
DecodedWith(codec) ==
    LET dec == IF codec = "base64" THEN Base64Decode(data'.payload)
               ELSE [ok |-> TRUE, bytes |-> data'.payload]
    IN  IF dec.ok
        THEN /\ Len(slaveWrites') = Len(slaveWrites) + 1
             /\ slaveWrites'[Len(slaveWrites')].bytes = dec.bytes
        ELSE slaveWrites' = slaveWrites /\ FatalStep

(* C12: the dispatch of a set-encoding message with a recognized name makes the   *)
(* named codec the active one; every data message is decoded with the codec that  *)
(* is active at its own dispatch, so with the one selected by the latest          *)
(* set-encoding before it; the active codec changes at no other step.             *)
C12_CodecSwitchOrdered ==
    [][/\ (EncodingDispatch /\ Recognized(data'.name)) => decoder' = data'.name
       /\ decoder' # decoder => (EncodingDispatch /\ Recognized(data'.name))
       /\ InputDispatch => (DecodedWith(decoder) /\ decoder' = decoder)]_vars

\* the same payload "bA==" went to the back connection as it is under the
\* identity codec and, after a switch to base64, decoded to "l"
C12_Witness ==
    /\ decoder = "base64"
    /\ Len(slaveWrites) = 2
    /\ slaveWrites[1].bytes = << 98, 65, PadChar, PadChar >>
    /\ slaveWrites[2].bytes = << 108 >>
    /\ data = InputMsg(<< 98, 65, PadChar, PadChar >>)

(* C13: a set-encoding message whose payload is not a recognized codec name, the  *)
(* empty payload included, changes neither the active codec nor any other state   *)
(* of the bridge, writes nothing to either connection, and is not an error: the   *)
(* loop goes on to its next read.                                                 *)
C13_UnknownEncodingIgnored ==
    [][(EncodingDispatch /\ ~Recognized(data'.name)) =>
          /\ ContinueStep
          /\ UNCHANGED << wt, decoder, feBuffer, beBuffer, writeMutex, inWrite, wmsg,
                          hsNext, errs, ctxDone, masterWrites, slaveReads,
                          slaveReadCalls, slaveWrites, resizeCalls, auditLog >>
          /\ pc' = pc]_vars

\* the base64 codec is still active after a set-encoding message with the name
\* "utf8", and the loop reads on
C13_Witness ==
    /\ decoder = "base64"
    /\ masterReadCalls = 2
    /\ data = SetEncodingMsg("utf8")
    /\ slaveWrites = << >>
    /\ pc["master"] = "read"

----------------------------------------------------------------------------
(* Audit logging. *)

\* the messages of the lines emitted for one direction, in order
RECURSIVE LinesOf(_, _)
LinesOf(log, stream) ==
    IF log = << >> THEN << >>
    ELSE IF Head(log).stream = stream
         THEN << Head(log).msg >> \o LinesOf(Tail(log), stream)
         ELSE LinesOf(Tail(log), stream)

\* the byte slices the audit sink of the front direction was called with: the
\* decoded input, audited at line 203 before it is written at line 204
FrontAudited == [i \in 1..Len(slaveWrites) |-> slaveWrites[i].bytes]

(* C14: with auditing enabled, when the audit sink of the front direction has     *)
(* been fed "ls\r" and then "\r", exactly one line has been emitted for that      *)
(* direction, and it is "ls": the second call, whose bytes before the last        *)
(* carriage return are none, emits no line.                                       *)
C14_EmptyPortionEmitsNoLine ==
    (wt.auditEnabled /\ FrontAudited = << << 108, 115, CR >>, << CR >> >>)
        => LinesOf(auditLog, "browser") = << << 108, 115 >> >>

----------------------------------------------------------------------------
(* The return of Run. *)

\* a Read on the back connection has failed: one call returned no chunk
BackReadFailed == slaveReadCalls > Len(slaveReads)

\* a Read on the front connection has failed
FrontReadFailed == pc["master"] \in {"send", "done"} /\ result["master"] = ErrMasterClosed

\* the loop has produced its terminal result
Terminated(p) == pc[p] \in {"send", "done"}

Returned == pc["run"] = "returned"

(* C15: after a successful handshake, once a read on the back connection has      *)
(* failed, Run returns and returns ErrSlaveClosed, unless the front-to-back loop  *)
(* ends as well (a failed read, a failed Pong write, a fatal message) or the      *)
(* context is canceled; and once a read on the front connection has failed, Run   *)
(* returns ErrMasterClosed, unless the back-to-front loop ends as well or the     *)
(* context is canceled.                                                           *)
C15_ReadFailureReturns ==
    /\ (HandshakeSucceeded /\ BackReadFailed)
          ~> \/ Returned /\ result["run"] = << "ErrSlaveClosed" >>
             \/ Terminated("master")
             \/ ctxDone
    /\ (HandshakeSucceeded /\ FrontReadFailed)
          ~> \/ Returned /\ result["run"] = << "ErrMasterClosed" >>
             \/ Terminated("slave")
             \/ ctxDone

\* Run has returned ErrSlaveClosed while the front-to-back loop, having answered a
\* Ping, waits in its read and nobody has canceled
C15_Witness ==
    /\ Returned
    /\ result["run"] = << "ErrSlaveClosed" >>
    /\ BackReadFailed
    /\ pc["master"] = "read"
    /\ HasWrite("Pong")
    /\ ~ctxDone

Loops == {"slave", "master"}

Other(p) == IF p = "slave" THEN "master" ELSE "slave"

\* the goroutine of loop p has delivered its terminal result and finished, and
\* it did so before the other one: a result of the other one is still in errs
\* (Run receives once), or the other one has not finished
FinishedFirst(p) ==
    /\ pc[p] = "done"
    /\ pc[Other(p)] = "done" => errs = << result[Other(p)] >>

----------------------------------------------------------------------------
(* Unclassifiable messages. *)

\* data' has no first byte or a first byte that is none of Input, Ping,
\* SetEncoding and ResizeTerminal
Unclassifiable(d) == d.tag \notin {"Input", "Ping", "SetEncoding", "ResizeTerminal"}

(* C17: a front read that returns a message with no byte at all, or with a first  *)
(* byte that is not the tag of a data, keepalive-ping, set-encoding or resize     *)
(* message, ends the front-to-back loop with an error; the step writes nothing to *)
(* the back connection, calls no resize, and leaves no message to be written to   *)
(* the front connection.                                                          *)
C17_UnclassifiableIsFatal ==
    [][(HandledStep /\ Unclassifiable(data')) =>
          /\ FatalStep
          /\ result'["master"] \in {<< "unknown message type" >>,
                                    << "unexpected zero length read from master" >>}
          /\ wmsg' = wmsg
          /\ masterWrites' = masterWrites
          /\ slaveWrites' = slaveWrites
          /\ resizeCalls' = resizeCalls]_vars

\* the loop ended on a message with an unknown tag after it had answered a Ping;
\* the Pong is its only write
C17_Witness ==
    /\ data = UnknownMsg
    /\ result["master"] = << "unknown message type" >>
    /\ Terminated("master")
    /\ masterReadCalls = 2
    /\ HasWrite("Pong")
    /\ slaveWrites = << >>
    /\ resizeCalls = << >>

----------------------------------------------------------------------------
(* The loops after the return of Run. *)

\* this step completes a Write of the back-to-front loop on the front connection
SlaveWrote ==
    /\ Len(masterWrites') = Len(masterWrites) + 1
    /\ masterWrites'[Len(masterWrites')].by = "slave"

\* this step is a read, a write or a resize call of loop p
LoopIO(p) ==
    IF p = "slave"
    THEN slaveReadCalls' # slaveReadCalls \/ slaveReads' # slaveReads \/ SlaveWrote
    ELSE \/ masterReadCalls' # masterReadCalls
         \/ slaveWrites' # slaveWrites
         \/ resizeCalls' # resizeCalls
         \/ MasterWrote

\* this step is a failure of loop p's own: a failed read or a fatal message at a
\* read of its connection, or a failed Write of its own on the front connection
OwnFailure(p) ==
    /\ result'[p] # Nil
    /\ IF p = "slave"
       THEN \/ slaveReadCalls' = slaveReadCalls + 1 /\ slaveReads' = slaveReads
            \/ SlaveWrote /\ ~masterWrites'[Len(masterWrites')].ok
       ELSE \/ masterReadCalls' = masterReadCalls + 1
            \/ MasterWrote /\ ~masterWrites'[Len(masterWrites')].ok

\* the read budget of the model is not used up
CanRead == slaveReadCalls + masterReadCalls < MaxReads

(* C18: the return of Run and the cancellation of the context change nothing in  *)
(* the two loops: a loop that waits in its read can still read, and answer or     *)
(* forward what it reads, when Run has returned or the context is canceled; a     *)
(* loop terminates only by a failure of its own, a failed read, a fatal message   *)
(* or a failed write; and a loop that has produced its terminal result reads and  *)
(* writes nothing more.                                                           *)
C18_OtherLoopKeepsRunning ==
    /\ [][(HandshakeSucceeded /\ (pc'["run"] # pc["run"] \/ ctxDone' # ctxDone)) =>
            \A p \in Loops : pc'[p] = pc[p] /\ result'[p] = result[p] /\ ~LoopIO(p)]_vars
    /\ []((pc["slave"] = "read" /\ CanRead) => ENABLED SlaveRead)
    /\ []((pc["master"] = "read" /\ CanRead) => ENABLED MasterRead)
    /\ [](\A p \in Loops : pc[p] = "lock" /\ writeMutex = NoHolder
                              => ENABLED MasterWriteLock(p))
    /\ [](\A p \in Loops : pc[p] = "write" => ENABLED MasterWriteReturn(p))
    /\ [][\A p \in Loops : (~Terminated(p) /\ Terminated(p)') => OwnFailure(p)]_vars
    /\ [][\A p \in Loops : Terminated(p) => ~LoopIO(p) /\ result'[p] = result[p]]_vars

\* Run has returned ErrMasterClosed and the back-to-front loop is inside a Write
\* of an Output message
C18_Witness ==
    /\ Returned
    /\ result["run"] = << "ErrMasterClosed" >>
    /\ pc["slave"] = "write"
    /\ wmsg["slave"].tag = "Output"
    /\ inWrite = {"slave"}

----------------------------------------------------------------------------
(* The completion queue. *)

\* how many times e is in the queue q
RECURSIVE Count(_, _)
Count(q, e) ==
    IF q = << >> THEN 0
    ELSE (IF Head(q) = e THEN 1 ELSE 0) + Count(Tail(q), e)

\* Run has taken e from errs: it returned a value that is not the cancellation
\* error
Received(e) ==
    HandshakeSucceeded /\ Returned /\ result["run"] # << "context canceled" >>
        /\ result["run"] = e

\* how many times the terminal result of loop p has been placed in errs
Sent(p) == Count(errs, result[p]) + (IF Received(result[p]) THEN 1 ELSE 0)

(* C19: a loop goroutine that has finished has placed its terminal result in      *)
(* errs exactly once and one that has not finished has placed nothing; errs never *)
(* holds more than two results; and a loop that has its terminal result can       *)
(* always do its send, also when Run has returned and nobody receives: the send   *)
(* never waits for room.                                                          *)
C19_SendOnceNeverBlocks ==
    /\ Len(errs) <= 2
    /\ \A p \in Loops : Sent(p) = (IF pc[p] = "done" THEN 1 ELSE 0)
    /\ \A p \in Loops : pc[p] = "send" => ENABLED SendResult(p)

\* Run returned the cancellation error and received nothing; both loops have
\* finished after it and their two results fill errs
C19_Witness ==
    /\ Returned
    /\ result["run"] = << "context canceled" >>
    /\ pc["slave"] = "done"
    /\ pc["master"] = "done"
    /\ Len(errs) = 2

----------------------------------------------------------------------------
(* The audit accumulators. *)

\* the bytes of s after its last carriage return; all of s when it has none
AfterLastCR(s) == SubSeq(s, LastIndexByte(s, CR) + 2, Len(s))

HasCR(s) == \E i \in 1..Len(s) : s[i] = CR

\* the slices the audit sink was called with, each without its escape sequences
Stripped(slices) == [i \in 1..Len(slices) |-> Strip(slices[i])]

\* with auditing enabled the accumulators hold no carriage return and are the
\* tails of front and back, the byte streams of the two directions; with auditing
\* disabled they are empty and no line has been emitted
AccumulatorsAreTails(front, back) ==
    IF wt.auditEnabled
    THEN /\ ~HasCR(feBuffer) /\ ~HasCR(beBuffer)
         /\ feBuffer = AfterLastCR(front)
         /\ beBuffer = AfterLastCR(back)
    ELSE feBuffer = << >> /\ beBuffer = << >> /\ auditLog = << >>

\* a step with a call of the sink for one direction leaves the accumulator of the
\* other direction as it is
OneDirectionPerCall ==
    /\ slaveReadCalls' # slaveReadCalls => feBuffer' = feBuffer
    /\ masterReadCalls' # masterReadCalls => beBuffer' = beBuffer

(* C20 as stated: with auditing enabled each accumulator holds no carriage return *)
(* and is exactly the bytes its direction received after the most recent carriage *)
(* return; a call for one direction leaves the other accumulator unchanged; with  *)
(* auditing disabled both accumulators stay empty and nothing is emitted.         *)
C20_AccumulatorHoldsReceivedTail ==
    /\ [](AccumulatorsAreTails(Concat(FrontAudited), Concat(slaveReads)))
    /\ [][OneDirectionPerCall]_vars

(* C20 amended: with auditing enabled each accumulator holds no carriage return   *)
(* and is exactly what its direction received after the most recent carriage      *)
(* return once every slice passed to the sink is stripped of its escape           *)
(* sequences; a call for one direction leaves the other accumulator unchanged;    *)
(* with auditing disabled both accumulators stay empty and nothing is emitted.    *)
C20_AccumulatorHoldsStrippedTail ==
    /\ [](AccumulatorsAreTails(Concat(Stripped(FrontAudited)),
                               Concat(Stripped(slaveReads))))
    /\ [][OneDirectionPerCall]_vars

\* the back direction received "\r", an escape sequence and "l" and holds "l";
\* the front direction received "ls\r" and "s" and holds "s"
C20_Witness ==
    /\ wt.auditEnabled
    /\ slaveReads = << << CR, ESC, 91, 109, 108 >> >>
    /\ beBuffer = << 108 >>
    /\ FrontAudited = << << 108, 115, CR >>, << 115 >> >>
    /\ feBuffer = << 115 >>

====
